---- MODULE Spec2Model ----
(***************************************************************************)
(* Model of redis-migrate (src/migrator/main.py).                          *)
(*                                                                         *)
(*   Spec     one migrate() task: the scan / grouped type read / grouped   *)
(*            TTL+value read / grouped destination write loop, run against *)
(*            a source that another client may delete keys from.           *)
(*   FairSpec Spec with weak fairness on the steps of the task.            *)
(*   SpecAll  migrate_all(): one task per populated database, run by a     *)
(*            multiprocessing.Pool through starmap; a task is one call of  *)
(*            migrate() and is seen here only by how it ends.              *)
(*   FairSpecAll  SpecAll with weak fairness on its steps.                 *)
(***************************************************************************)
EXTENDS Integers, Sequences, FiniteSets, TLC

\* ------------------------------------------------------------------ bounds
NumBuckets == 2      \* the source keyspace is enumerated in NumBuckets scans
MaxDeletes == 1      \* deletions another client performs during the run
MaxScans == NumBuckets + 2
MaxDb == 5           \* candidate populated databases: 0, 3, 6, ...
MaxProcs == 2        \* nprocs ranges over 1..MaxProcs

\* --------------------------------------------------------------- universes
AllKeys == << <<"a", "2">>, <<"a", "1">>, <<"b", "1">> >>
Keys == {AllKeys[i] : i \in 1..Len(AllKeys)}
NoMatch == <<>>                       \* match=None
Matches == {NoMatch, <<"a", "*">>}

\* A payload: Python None, a str, or a dict of field -> value pairs.
Nil == [kind |-> "nil", s |-> "", m |-> {}]
StrVal(s) == [kind |-> "str", s |-> s, m |-> {}]
MapVal(m) == [kind |-> "map", s |-> "", m |-> m]

\* One key of a logical database: Redis type, payload, PTTL.
NoKey == [type |-> "none", val |-> Nil, ttl |-> -2]
StrKey(s, t) == [type |-> "string", val |-> StrVal(s), ttl |-> t]
HashKey(m, t) == [type |-> "hash", val |-> MapVal(m), ttl |-> t]
ListKey == [type |-> "list", val |-> Nil, ttl |-> -1]

\* PTTL of an existing key: -1 (no expiry), 0 (less than a millisecond
\* left) or a positive number of milliseconds.
TTLs == {-1, 0, 7}
SrcRecords ==
  {NoKey, ListKey, StrKey("", -1)}
    \cup {StrKey("x", t) : t \in TTLs}
    \cup {HashKey({<<"f", "v">>}, t) : t \in TTLs}

\* The destination is empty, or already holds the key "a1".
DstRecords == {NoKey, StrKey("old", 9)}
DstInits ==
  {[k \in Keys |-> IF k = <<"a", "1">> THEN r ELSE NoKey] : r \in DstRecords}

VARIABLES
  src,        \* source database: key -> record
  dst,        \* destination database: key -> record
  dst0,       \* history: the destination database before the run
  match,      \* the match argument of migrate()
  pc,         \* position of migrate(): scan, type, data, build, exec, done, failed
  cursor,     \* local variable cursor
  keys,       \* local variable keys (the batch)
  key_types,  \* local variable key_types
  key_data,   \* local variable key_data (flat: pttl, payload, pttl, payload, ...)
  pipeline,   \* command stack of the destination pipeline
  err,        \* the exception that ended the task, "" if none
  scanLog,    \* history: every scan issued, <<argument, returned cursor, keys>>
  execLog,    \* history: every destination group executed
  deleted,    \* history: where the task stood when another client deleted a key
  nDel        \* history: number of deletions so far

mvars == <<src, dst, dst0, match, pc, cursor, keys, key_types, key_data, pipeline,
           err, scanLog, execLog, deleted, nDel>>

VARIABLES
  populated,  \* the db indexes that hold keys on the source
  failing,    \* the db indexes whose migrate() call raises
  keyspace,   \* keys of srcr.info('keyspace'), in the order reported
  nprocs,     \* the nprocs argument
  dpc,        \* position of migrate_all(): init, mapping, returned, raised
  derr,       \* the exception migrate_all() raised, "" if none
  poolSize,   \* number of worker processes of the pool
  tasks,      \* the argument tuples handed to starmap
  taskq,      \* the pool's queue of chunks not yet taken by a worker
  workers,    \* worker -> the chunk it is running (head = running task)
  status,     \* task -> queued, running, done, failed
  chunksLeft, \* MapResult._number_left
  mapOk       \* MapResult._success

dvars == <<populated, failing, keyspace, nprocs, dpc, derr, poolSize, tasks,
           taskq, workers, status, chunksLeft, mapOk>>

VARIABLES
  run,        \* 1 during the first call of migrate(), 2 during a repeated call
  dstRun1,    \* history: the destination as the first call left it
  errRun1     \* history: the error the first call raised, if any

rvars == <<run, dstRun1, errRun1>>

VARIABLES
  uri,        \* the endpoint string handed to parse_uri
  triple,     \* the (host, port, db) handed to combine_uri, if any
  parsed,     \* what parse_uri returned or raised
  upc         \* position of the endpoint handling: combine, parse, parsed

uvars == <<uri, triple, parsed, upc>>
vars == <<mvars, dvars, rvars, uvars>>

\* ------------------------------------------------------------ pure helpers
Min(S) == CHOOSE x \in S : \A y \in S : x <= y
MinOf(a, b) == IF a <= b THEN a ELSE b

\* Python truthiness of a payload (line 68: "if data:").
Truthy(d) ==
  CASE d.kind = "nil" -> FALSE
    [] d.kind = "str" -> d.s # ""
    [] d.kind = "map" -> d.m # {}

\* Glob match of the SCAN MATCH option; only "*" is a wildcard here.
RECURSIVE GlobMatch(_, _)
GlobMatch(p, s) ==
  IF p = <<>> THEN s = <<>>
  ELSE IF Head(p) = "*"
    THEN GlobMatch(Tail(p), s) \/ (s # <<>> /\ GlobMatch(p, Tail(s)))
    ELSE s # <<>> /\ Head(p) = Head(s) /\ GlobMatch(Tail(p), Tail(s))

KeyMatches(m, k) == m = NoMatch \/ GlobMatch(m, k)

\* Subsequence of s whose elements satisfy membership in S.
RECURSIVE SelectIn(_, _)
SelectIn(s, S) ==
  IF s = <<>> THEN <<>>
  ELSE IF Head(s) \in S THEN <<Head(s)>> \o SelectIn(Tail(s), S)
       ELSE SelectIn(Tail(s), S)

\* ------------------------------------------------------------ the servers
\* SCAN cursor MATCH m: the keyspace is enumerated in NumBuckets steps; the
\* call with cursor c returns the existing, matching keys of bucket c and the
\* next cursor, which is 0 after the last bucket.
Slot(i) == i % NumBuckets
ServerScan(db, c, m) ==
  LET b == c % NumBuckets
      inB == {AllKeys[i] : i \in {j \in 1..Len(AllKeys) : Slot(j) = b}}
      hit == {k \in inB : db[k].type # "none" /\ KeyMatches(m, k)}
  IN [cursor |-> (b + 1) % NumBuckets, keys |-> SelectIn(AllKeys, hit)]

\* Reply of the source to one read command.
SrcReply(db, cmd) ==
  CASE cmd.op = "type" -> db[cmd.key].type
    [] cmd.op = "pttl" -> db[cmd.key].ttl
    [] cmd.op = "get" ->
         IF db[cmd.key].type = "string" THEN db[cmd.key].val ELSE Nil
    [] cmd.op = "hgetall" ->
         IF db[cmd.key].type = "hash" THEN db[cmd.key].val ELSE MapVal({})

\* pipeline.execute() on the source: ordered replies, one per queued command.
SrcExecute(db, cmds) == [j \in 1..Len(cmds) |-> SrcReply(db, cmds[j])]

\* Effect of one write command on the destination; ok is FALSE when the
\* server rejects the command (WRONGTYPE), which leaves the key untouched.
HashMerge(old, new) ==
  new \cup {p \in old : \A q \in new : q[1] # p[1]}
DstApply(db, cmd) ==
  LET cur == db[cmd.key] IN
  CASE cmd.op = "set" ->
         [db |-> [db EXCEPT ![cmd.key] =
                    [type |-> "string", val |-> cmd.val,
                     ttl |-> IF cmd.px = {} THEN -1 ELSE Min(cmd.px)]],
          ok |-> TRUE]
    [] cmd.op = "hmset" ->
         IF cur.type = "none"
           THEN [db |-> [db EXCEPT ![cmd.key] =
                           [type |-> "hash", val |-> cmd.val, ttl |-> -1]],
                 ok |-> TRUE]
         ELSE IF cur.type = "hash"
           THEN [db |-> [db EXCEPT ![cmd.key].val =
                           MapVal(HashMerge(cur.val.m, cmd.val.m))],
                 ok |-> TRUE]
         ELSE [db |-> db, ok |-> FALSE]
    [] cmd.op = "pexpire" ->
         IF cur.type = "none" THEN [db |-> db, ok |-> TRUE]
         ELSE IF Min(cmd.px) <= 0
           THEN [db |-> [db EXCEPT ![cmd.key] = NoKey], ok |-> TRUE]
         ELSE [db |-> [db EXCEPT ![cmd.key].ttl = Min(cmd.px)], ok |-> TRUE]

\* A grouped call that stops at the first rejected command.
RECURSIVE DstExecuteStopAtError(_, _, _)
DstExecuteStopAtError(db, cmds, j) ==
  IF j > Len(cmds) THEN [db |-> db, failed |-> {}]
  ELSE LET r == DstApply(db, cmds[j])
       IN IF r.ok THEN DstExecuteStopAtError(r.db, cmds, j + 1)
          ELSE [db |-> r.db, failed |-> {j}]

\* pipeline.execute() on the destination, transaction=False: every command
\* is applied in order, a rejected one does not stop the following ones;
\* failed is the set of positions whose command was rejected.
RECURSIVE DstExecute(_, _, _)
DstExecute(db, cmds, j) ==
  IF j > Len(cmds) THEN [db |-> db, failed |-> {}]
  ELSE LET r == DstApply(db, cmds[j])
           rest == DstExecute(r.db, cmds, j + 1)
       IN [db |-> rest.db,
           failed |-> IF r.ok THEN rest.failed ELSE {j} \cup rest.failed]

\* ------------------------------------------------- migrate(): local steps
\* key_data[::2] and key_data[1::2]
EvenSlice(s) == [i \in 1..((Len(s) + 1) \div 2) |-> s[2 * i - 1]]

\* Variant of OddSlice: the payloads are taken from the end of the replies.
OddSliceReversed(s) ==
  [i \in 1..(Len(s) \div 2) |-> s[2 * ((Len(s) \div 2) - i + 1)]]

OddSlice(s) == [i \in 1..(Len(s) \div 2) |-> s[2 * i]]

\* Lines 50-51: one TYPE per key.
TypeCmds(ks) == [i \in 1..Len(ks) |-> [op |-> "type", key |-> ks[i]]]

\* Lines 55-62: for every (key, ktype) a PTTL and a GET or HGETALL; an
\* unsupported ktype raises ValueError and nothing queued is executed.
\* Variant of Supported: a list key is let through the read phase.
SupportedAlsoList(ktype) == ktype \in {"string", "hash", "list"}

Supported(ktype) == ktype \in {"string", "hash"}
RECURSIVE ReadCmds(_, _, _)
ReadCmds(ks, kts, i) ==
  IF i > MinOf(Len(ks), Len(kts)) THEN [cmds |-> <<>>, raised |-> ""]
  ELSE IF ~Supported(kts[i]) THEN [cmds |-> <<>>, raised |-> kts[i]]
  ELSE LET rest == ReadCmds(ks, kts, i + 1)
           rd == [op |-> IF kts[i] = "string" THEN "get" ELSE "hgetall",
                  key |-> ks[i]]
       IN [cmds |-> <<[op |-> "pttl", key |-> ks[i]], rd>> \o rest.cmds,
           raised |-> rest.raised]

\* Variant of PxOf: the test is "pttl < 0", so a pttl of 0 is forwarded.
PxOfNonNeg(pttl) == IF pttl < 0 THEN {} ELSE {pttl}

\* Variant of PxOf: no pttl is ever forwarded.
PxOfDrop(pttl) == {}

\* Lines 69-70: a pttl of 0 or less becomes None, i.e. no expiry argument.
PxOf(pttl) == IF pttl <= 0 THEN {} ELSE {pttl}

\* The write commands of one key with the expiry queued before the field
\* map instead of after it.
WriteForExpireFirst(key, ktype, pttl, data) ==
  IF ~Truthy(data) THEN [cmds |-> <<>>, raised |-> ""]
  ELSE IF ktype = "string"
    THEN [cmds |-> <<[op |-> "set", key |-> key, val |-> data,
                      px |-> PxOf(pttl)]>>,
          raised |-> ""]
  ELSE IF ktype = "hash"
    THEN [cmds |-> (IF PxOf(pttl) # {}
                      THEN <<[op |-> "pexpire", key |-> key, val |-> Nil,
                              px |-> PxOf(pttl)]>>
                      ELSE <<>>)
                   \o <<[op |-> "hmset", key |-> key, val |-> data,
                         px |-> {}]>>,
          raised |-> ""]
  ELSE [cmds |-> <<>>, raised |-> ktype]

\* Lines 68-78: the write commands of one key.
WriteFor(key, ktype, pttl, data) ==
  IF ~Truthy(data) THEN [cmds |-> <<>>, raised |-> ""]
  ELSE IF ktype = "string"
    THEN [cmds |-> <<[op |-> "set", key |-> key, val |-> data,
                      px |-> PxOf(pttl)]>>,
          raised |-> ""]
  ELSE IF ktype = "hash"
    THEN [cmds |-> <<[op |-> "hmset", key |-> key, val |-> data, px |-> {}]>>
                   \o (IF PxOf(pttl) # {}
                         THEN <<[op |-> "pexpire", key |-> key, val |-> Nil,
                                 px |-> PxOf(pttl)]>>
                         ELSE <<>>),
          raised |-> ""]
  ELSE [cmds |-> <<>>, raised |-> ktype]

\* Line 67: zip(keys, key_types, key_data[::2], key_data[1::2]).
ZipLen(ks, kts, kd) ==
  MinOf(MinOf(Len(ks), Len(kts)),
        MinOf(Len(EvenSlice(kd)), Len(OddSlice(kd))))
RECURSIVE WriteCmds(_, _, _, _)
WriteCmds(ks, kts, kd, i) ==
  IF i > ZipLen(ks, kts, kd) THEN [cmds |-> <<>>, raised |-> ""]
  ELSE LET w == WriteFor(ks[i], kts[i], EvenSlice(kd)[i], OddSlice(kd)[i])
       IN IF w.raised # "" THEN [cmds |-> <<>>, raised |-> w.raised]
          ELSE LET rest == WriteCmds(ks, kts, kd, i + 1)
               IN [cmds |-> w.cmds \o rest.cmds, raised |-> rest.raised]

\* Variant of ScanCall: every scan is issued with cursor 0.
ScanCallRestart(db, cur, m) ==
  [arg |-> 0, cursor |-> ServerScan(db, 0, m).cursor,
   keys |-> ServerScan(db, 0, m).keys]

\* Line 48: the scan call; arg is the cursor sent to the server.
ScanCall(db, cur, m) ==
  [arg |-> cur, cursor |-> ServerScan(db, cur, m).cursor,
   keys |-> ServerScan(db, cur, m).keys]

\* Variant of AfterBuild: the group is executed only for the last batch.
AfterBuildLastOnly(cur) == IF cur = 0 THEN "exec" ELSE "scan"

\* Lines 80-82: once the group is built it is executed.
AfterBuild(cur) == "exec"

\* Variant of LoopExit: the test is inverted.
LoopExitNonZero(cur) == cur # 0

\* Lines 84-85: leave the loop when the returned cursor is 0.
LoopExit(cur) == cur = 0

\* ----------------------------------------------------- migrate(): actions
NoErr == ""

\* Line 48.
Scan ==
  /\ pc = "scan"
  /\ Len(scanLog) < MaxScans
  /\ LET r == ScanCall(src, cursor, match) IN
       /\ cursor' = r.cursor
       /\ keys' = r.keys
       /\ scanLog' = Append(scanLog, [arg |-> r.arg, ret |-> r.cursor,
                                      keys |-> r.keys])
  /\ pc' = "type"
  /\ UNCHANGED <<src, dst, dst0, match, key_types, key_data, pipeline, err,
                 execLog, deleted, nDel, dvars, rvars, uvars>>

\* Lines 49-53.
ReadTypes ==
  /\ pc = "type"
  /\ key_types' = SrcExecute(src, TypeCmds(keys))
  /\ pc' = "data"
  /\ UNCHANGED <<src, dst, dst0, match, cursor, keys, key_data, pipeline, err,
                 scanLog, execLog, deleted, nDel, dvars, rvars, uvars>>

\* Lines 55-64.
ReadData ==
  /\ pc = "data"
  /\ LET q == ReadCmds(keys, key_types, 1) IN
       IF q.raised # ""
         THEN /\ pc' = "failed"
              /\ err' = "ValueError"
              /\ UNCHANGED key_data
         ELSE /\ key_data' = SrcExecute(src, q.cmds)
              /\ pc' = "build"
              /\ UNCHANGED err
  /\ UNCHANGED <<src, dst, dst0, match, cursor, keys, key_types, pipeline,
                 scanLog, execLog, deleted, nDel, dvars, rvars, uvars>>

\* Lines 66-80.
BuildWrites ==
  /\ pc = "build"
  /\ LET w == WriteCmds(keys, key_types, key_data, 1) IN
       IF w.raised # ""
         THEN /\ pc' = "failed"
              /\ err' = "ValueError"
              /\ pipeline' = <<>>
         ELSE /\ pipeline' = w.cmds
              /\ pc' = AfterBuild(cursor)
              /\ UNCHANGED err
  /\ UNCHANGED <<src, dst, dst0, match, cursor, keys, key_types, key_data,
                 scanLog, execLog, deleted, nDel, dvars, rvars, uvars>>

\* Lines 82-85: the grouped write, then the loop condition.  A rejected
\* command makes execute() raise after the whole group was sent; execute()
\* leaves the command stack empty.
ExecWrites ==
  /\ pc = "exec"
  /\ LET r == DstExecute(dst, pipeline, 1) IN
       /\ dst' = r.db
       /\ execLog' = Append(execLog, [batch |-> Len(scanLog),
                                      cmds |-> pipeline,
                                      keys |-> keys,
                                      types |-> key_types,
                                      data |-> key_data,
                                      failed |-> r.failed,
                                      after |-> r.db])
       /\ pipeline' = <<>>
       /\ IF r.failed # {}
            THEN pc' = "failed" /\ err' = "ResponseError"
            ELSE /\ pc' = IF LoopExit(cursor) THEN "done" ELSE "scan"
                 /\ UNCHANGED err
  /\ UNCHANGED <<src, dst0, match, cursor, keys, key_types, key_data,
                 scanLog, deleted, nDel, dvars, rvars, uvars>>

\* Another client deletes a source key (DEL, or the key's expiry fires)
\* while the task is running: before a scan, between the scan and the type
\* read, or between the type read and the TTL/value read.  After the
\* TTL/value read the task does not read the source again before its next
\* scan, so a later deletion is the one taken at pc = "scan".
OtherClientDelete ==
  /\ pc \in {"scan", "type", "data"}
  /\ nDel < MaxDeletes
  /\ \E k \in Keys :
       /\ src[k].type # "none"
       /\ src' = [src EXCEPT ![k] = NoKey]
       /\ deleted' = [deleted EXCEPT ![k] =
                        [at |-> pc, batch |-> Len(scanLog)]]
  /\ nDel' = nDel + 1
  /\ UNCHANGED <<dst, dst0, match, pc, cursor, keys, key_types, key_data,
                 pipeline, err, scanLog, execLog, dvars, rvars, uvars>>

NotDeleted == [at |-> "never", batch |-> 0]

\* No endpoint string is being handled.
NoTriple == [host |-> <<>>, port |-> 0, db |-> 0]
NotParsed == [ok |-> FALSE, host |-> <<>>, port |-> 0, db |-> 0, exc |-> ""]
UriIdle ==
  /\ uri = <<>>
  /\ triple = NoTriple
  /\ parsed = NotParsed
  /\ upc = "unused"

\* migrate() is called for the first time.
FirstRun ==
  /\ run = 1
  /\ dstRun1 = [k \in Keys |-> NoKey]
  /\ errRun1 = NoErr

\* The dispatcher is not involved in a single-task run (lines 127-132).
DispatcherIdle ==
  /\ populated = {}
  /\ failing = {}
  /\ keyspace = <<>>
  /\ nprocs = 1
  /\ dpc = "unused"
  /\ derr = NoErr
  /\ poolSize = 0
  /\ tasks = <<>>
  /\ taskq = <<>>
  /\ workers = <<>>
  /\ status = <<>>
  /\ chunksLeft = 0
  /\ mapOk = TRUE

\* Lines 35-46: the state of migrate() on entering the loop.
Init ==
  /\ DispatcherIdle
  /\ UriIdle
  /\ FirstRun
  /\ src \in [Keys -> SrcRecords]
  /\ dst \in DstInits
  /\ dst0 = dst
  /\ match \in Matches
  /\ pc = "scan"
  /\ cursor = 0
  /\ keys = <<>>
  /\ key_types = <<>>
  /\ key_data = <<>>
  /\ pipeline = <<>>
  /\ err = NoErr
  /\ scanLog = <<>>
  /\ execLog = <<>>
  /\ deleted = [k \in Keys |-> NotDeleted]
  /\ nDel = 0

TaskNext == Scan \/ ReadTypes \/ ReadData \/ BuildWrites \/ ExecWrites

Next ==
  \/ Scan
  \/ ReadTypes
  \/ ReadData
  \/ BuildWrites
  \/ ExecWrites
  \/ OtherClientDelete

Spec == Init /\ [][Next]_vars

FairSpec == Spec /\ WF_vars(TaskNext)

\* ================================================== properties of migrate()
Last(s) == s[Len(s)]
\* The two types the claims call supported.
StringOrHash(t) == t = "string" \/ t = "hash"
PosOf(ks, k) == CHOOSE i \in 1..Len(ks) : ks[i] = k
InSeq(ks, k) == \E i \in 1..Len(ks) : ks[i] = k
\* Positions of the commands of a group that address key k.
CmdPos(cmds, k) == {j \in 1..Len(cmds) : cmds[j].key = k}
\* What batch entry e read for the key at position i.
PttlRead(e, i) == e.data[2 * i - 1]
DataRead(e, i) == e.data[2 * i]
\* The key existed on the source when its payload was read.
PresentRead(e, i) ==
  \/ DataRead(e, i).kind = "str"
  \/ DataRead(e, i).kind = "map" /\ DataRead(e, i).m # {}

\* C1 (as claimed): when migrate() ends normally and the source was not
\* mutated during the run, every source key matched by the pattern whose
\* type is string or hash is on the destination with the same type and an
\* equal value or an equal field map, the empty string included.
C1_Completeness ==
  (pc = "done" /\ nDel = 0) =>
    \A k \in Keys :
      (KeyMatches(match, k) /\ StringOrHash(src[k].type)) =>
        (dst[k].type = src[k].type /\ dst[k].val = src[k].val)

\* C2: in every executed group, a key read with PTTL <= 0 gets no expiry
\* instruction (no px on its SET, no PEXPIRE), and a written key read with a
\* PTTL > 0 gets exactly that PTTL: as px of its SET, or as a PEXPIRE that
\* follows its HMSET.
C2_TTLTranslation ==
  \A n \in 1..Len(execLog) :
    LET e == execLog[n] IN
    \A i \in 1..Len(e.keys) :
      LET pos == CmdPos(e.cmds, e.keys[i]) IN
      /\ PttlRead(e, i) <= 0 =>
           \A j \in pos : e.cmds[j].px = {} /\ e.cmds[j].op # "pexpire"
      /\ PttlRead(e, i) > 0 =>
           \A j \in pos :
             /\ e.cmds[j].op = "set" => e.cmds[j].px = {PttlRead(e, i)}
             /\ e.cmds[j].op = "pexpire" => e.cmds[j].px = {PttlRead(e, i)}
             /\ e.cmds[j].op = "hmset" =>
                  /\ j + 1 \in pos
                  /\ e.cmds[j + 1].op = "pexpire"

\* C2 witness: groups were executed that carry a SET with px, a PEXPIRE
\* after an HMSET, and a write of a key whose PTTL was read as 0.
C2_Witness ==
  /\ \E n \in 1..Len(execLog) : \E j \in 1..Len(execLog[n].cmds) :
       execLog[n].cmds[j].op = "set" /\ execLog[n].cmds[j].px # {}
  /\ \E n \in 1..Len(execLog) : \E j \in 1..Len(execLog[n].cmds) :
       execLog[n].cmds[j].op = "pexpire"
  /\ \E n \in 1..Len(execLog) : \E i \in 1..Len(execLog[n].keys) :
       /\ PttlRead(execLog[n], i) = 0
       /\ CmdPos(execLog[n].cmds, execLog[n].keys[i]) # {}

\* A key of batch entry e that was deleted between the grouped type read
\* and the grouped TTL/value read of that batch.
VanishedInBatch(e, k) ==
  /\ InSeq(e.keys, k)
  /\ deleted[k].at = "data"
  /\ deleted[k].batch = e.batch

\* C3 (as claimed): a key that vanishes between the type read and the value
\* read is not written, the batch still reaches its grouped write, and every
\* other key of the batch that was on the source when read is written.
C3_SkipSemantics ==
  \A n \in 1..Len(execLog) :
    LET e == execLog[n] IN
    \A k \in Keys :
      VanishedInBatch(e, k) =>
        /\ CmdPos(e.cmds, k) = {}
        /\ \A i \in 1..Len(e.keys) :
             (e.keys[i] # k /\ PresentRead(e, i)) =>
               CmdPos(e.cmds, e.keys[i]) # {}

\* The destination as the last executed group left it.
DstAfterLastGroup == IF execLog = <<>> THEN dst0 ELSE Last(execLog).after

\* C4: a batch with a key of another type than string or hash never gets
\* past the read phase: the task fails with the unsupported-type error, no
\* write group exists for that batch, the destination is as the earlier
\* batches left it, and once failed the task issues no scan and no write.
C4_UnsupportedState ==
  /\ pc \in {"build", "exec"} =>
       \A i \in 1..Len(key_types) : StringOrHash(key_types[i])
  /\ \A n \in 1..Len(execLog) :
       \A i \in 1..Len(execLog[n].types) : StringOrHash(execLog[n].types[i])
  /\ (pc = "failed" /\ err = "ValueError") =>
       /\ \E i \in 1..Len(key_types) : ~StringOrHash(key_types[i])
       /\ pipeline = <<>>
       /\ Len(execLog) = Len(scanLog) - 1
       /\ dst = DstAfterLastGroup
C4_UnsupportedType ==
  /\ []C4_UnsupportedState
  /\ [][pc = "failed" => (pc' = "failed" /\ scanLog' = scanLog /\ dst' = dst)]_vars

\* C4 witness: the task failed on a batch holding an unsupported key next to
\* a supported sibling, after an earlier batch had been written.
C4_Witness ==
  /\ pc = "failed" /\ err = "ValueError"
  /\ \E i, j \in 1..Len(key_types) :
       ~StringOrHash(key_types[i]) /\ StringOrHash(key_types[j])
  /\ Len(execLog) >= 1
  /\ execLog[1].cmds # <<>>
  /\ dst # dst0

\* C7: the steps of one task follow each other as scan, type read, TTL/value
\* read, write-group build, grouped write; the write of batch n is executed
\* before the scan of batch n+1 is issued; every executed group writes only
\* keys of its own batch with the payloads read in that batch.
PcOrder ==
  {<<"scan", "type">>, <<"type", "data">>, <<"data", "build">>,
   <<"build", "exec">>, <<"exec", "scan">>, <<"exec", "done">>,
   <<"data", "failed">>, <<"build", "failed">>, <<"exec", "failed">>}
C7_BatchState ==
  /\ pc = "scan" => Len(execLog) = Len(scanLog)
  /\ pc \in {"type", "data", "build", "exec"} =>
       Len(execLog) = Len(scanLog) - 1
  /\ pc # "exec" => pipeline = <<>>
  /\ \A n \in 1..Len(execLog) :
       LET e == execLog[n] IN
       /\ e.batch = n
       /\ e.keys = scanLog[n].keys
       /\ \A j \in 1..Len(e.cmds) :
            /\ InSeq(e.keys, e.cmds[j].key)
            /\ e.cmds[j].op \in {"set", "hmset"} =>
                 e.cmds[j].val = DataRead(e, PosOf(e.keys, e.cmds[j].key))
C7_BatchOrdering ==
  /\ []C7_BatchState
  /\ [][pc' # pc => <<pc, pc'>> \in PcOrder]_vars
  /\ [][scanLog' # scanLog => Len(execLog) = Len(scanLog)]_vars

\* C7 witness: two batches were written one after the other, each with
\* commands of its own.
C7_Witness ==
  /\ Len(execLog) = 2
  /\ execLog[1].cmds # <<>>
  /\ execLog[2].cmds # <<>>
  /\ pc = "done"

\* C8: the first scan is issued with cursor 0, every later scan with the
\* cursor the previous scan returned, no scan follows a scan that returned
\* 0, and the batch that came with cursor 0 is read and written before the
\* loop stops.
C8_CursorProtocol ==
  /\ scanLog # <<>> => scanLog[1].arg = 0
  /\ \A i \in 2..Len(scanLog) :
       /\ scanLog[i].arg = scanLog[i - 1].ret
       /\ scanLog[i - 1].ret # 0
  /\ pc = "done" =>
       /\ scanLog # <<>>
       /\ Last(scanLog).ret = 0
       /\ Len(execLog) = Len(scanLog)
       /\ Last(execLog).keys = Last(scanLog).keys
  /\ (pc = "scan" /\ scanLog # <<>>) => Last(scanLog).ret # 0

\* C8 witness: the loop stopped after a scan with a non-zero cursor argument
\* returned 0 together with keys, and those keys were written.
C8_Witness ==
  /\ pc = "done"
  /\ Len(scanLog) >= 2
  /\ Last(scanLog).arg # 0
  /\ Last(scanLog).keys # <<>>
  /\ Last(execLog).cmds # <<>>

\* C9: the task always terminates, normally or with an error; it ends
\* normally only right after the grouped write of the batch that came with
\* cursor 0 and without an error, and it ends as failed only with an error.
C9_Termination ==
  /\ <>(pc \in {"done", "failed"})
  /\ [](pc = "done" =>
          /\ cursor = 0
          /\ err = NoErr
          /\ Len(execLog) = Len(scanLog)
          /\ Last(scanLog).ret = 0)
  /\ [](pc = "failed" => err # NoErr)
  /\ [][pc = "done" => pc' = "done"]_vars

\* C9 witness: a task that ended normally after the last bucket, although
\* a key was deleted under it.
C9_Witness ==
  /\ pc = "done"
  /\ Len(scanLog) = NumBuckets
  /\ nDel > 0

\* ============================================================ migrate_all()
\* The populated databases are chosen among 0, 3, 6, ...
DbCandidates == {3 * (i - 1) : i \in 1..MaxDb}

DigitChars == <<"0", "1", "2", "3", "4", "5", "6", "7", "8", "9">>
RECURSIVE Decimal(_)
Decimal(n) ==
  IF n < 10 THEN <<DigitChars[n + 1]>>
  ELSE Decimal(n \div 10) \o <<DigitChars[(n % 10) + 1]>>
\* The name INFO keyspace reports for database n: "db<n>".
DbName(n) == <<"d", "b">> \o Decimal(n)

\* Ascending sequence of the elements of a set of integers.
RECURSIVE SortedSeq(_)
SortedSeq(S) ==
  IF S = {} THEN <<>> ELSE <<Min(S)>> \o SortedSeq(S \ {Min(S)})

\* int(text) for a string of decimal digits.
DigitOf(c) == (CHOOSE d \in 1..10 : DigitChars[d] = c) - 1
RECURSIVE ParseInt(_)
ParseInt(t) ==
  IF Len(t) = 1 THEN DigitOf(t[1])
  ELSE 10 * ParseInt(SubSeq(t, 1, Len(t) - 1)) + DigitOf(t[Len(t)])

\* Line 100: int(db[2:]).
DbIndex(db) == ParseInt(SubSeq(db, 3, Len(db)))

\* Variant of PoolSize: one process per populated database.
PoolSizePerDb(n, np) == n

\* Line 97: processes=min(len(keyspace.keys()), nprocs).
PoolSize(n, np) == MinOf(n, np)

\* Variant of TaskArgs: only as many tuples as nprocs.
TaskArgsPerProc(ks) ==
  [i \in 1..MinOf(Len(ks), nprocs) |->
     [srcdb |-> DbIndex(ks[i]), dstdb |-> DbIndex(ks[i]), barpos |-> i - 1]]

\* Lines 98-104: one argument tuple per key of keyspace, numbered by
\* enumerate().
TaskArgs(ks) ==
  [i \in 1..Len(ks) |->
     [srcdb |-> DbIndex(ks[i]), dstdb |-> DbIndex(ks[i]), barpos |-> i - 1]]

\* Line 98, starmap with the default chunksize: divmod(n, 4 * processes),
\* rounded up.
ChunkSize(n, p) ==
  IF n % (4 * p) = 0 THEN n \div (4 * p) ELSE (n \div (4 * p)) + 1

\* The task numbers 1..n cut into consecutive chunks of cs tasks.
RECURSIVE Chunks(_, _, _)
Chunks(from, n, cs) ==
  IF from > n THEN <<>>
  ELSE <<[j \in 1..MinOf(cs, n - from + 1) |-> from + j - 1]>>
         \o Chunks(from + cs, n, cs)

IdleWorker == <<>>

\* Lines 93-98: read the keyspace, create the pool, hand the tasks to
\* starmap.  Pool(processes=0) raises ValueError.
MigrateAllStart ==
  /\ dpc = "init"
  /\ IF PoolSize(Len(keyspace), nprocs) < 1
       THEN /\ dpc' = "raised"
            /\ derr' = "ValueError"
            /\ UNCHANGED <<poolSize, tasks, taskq, workers, status,
                           chunksLeft>>
       ELSE LET n == Len(TaskArgs(keyspace))
                p == PoolSize(Len(keyspace), nprocs)
                q == Chunks(1, n, ChunkSize(n, p))
            IN /\ poolSize' = p
               /\ tasks' = TaskArgs(keyspace)
               /\ taskq' = q
               /\ workers' = [w \in 1..p |-> IdleWorker]
               /\ status' = [i \in 1..n |-> "queued"]
               /\ chunksLeft' = Len(q)
               /\ dpc' = "mapping"
               /\ UNCHANGED derr
  /\ UNCHANGED <<populated, failing, keyspace, nprocs, mapOk, mvars, rvars, uvars>>

\* An idle worker takes the next chunk and starts its first task.
WorkerGet(w) ==
  /\ dpc = "mapping"
  /\ workers[w] = IdleWorker
  /\ taskq # <<>>
  /\ workers' = [workers EXCEPT ![w] = Head(taskq)]
  /\ taskq' = Tail(taskq)
  /\ status' = [status EXCEPT ![Head(Head(taskq))] = "running"]
  /\ UNCHANGED <<populated, failing, keyspace, nprocs, dpc, derr, poolSize,
                 tasks, chunksLeft, mapOk, mvars, rvars, uvars>>

\* The migrate() call a worker is running ends.  If it raised, the worker
\* abandons the rest of its chunk and reports the chunk as failed; else it
\* goes on with the next task of the chunk, or reports the chunk as done.
TaskEnd(w) ==
  /\ dpc = "mapping"
  /\ workers[w] # IdleWorker
  /\ LET i == Head(workers[w])
         rest == Tail(workers[w])
     IN IF tasks[i].srcdb \in failing
          THEN /\ status' = [status EXCEPT ![i] = "failed"]
               /\ workers' = [workers EXCEPT ![w] = IdleWorker]
               /\ chunksLeft' = chunksLeft - 1
               /\ mapOk' = FALSE
          ELSE IF rest = <<>>
            THEN /\ status' = [status EXCEPT ![i] = "done"]
                 /\ workers' = [workers EXCEPT ![w] = IdleWorker]
                 /\ chunksLeft' = chunksLeft - 1
                 /\ UNCHANGED mapOk
            ELSE /\ status' = [status EXCEPT ![i] = "done",
                                             ![Head(rest)] = "running"]
                 /\ workers' = [workers EXCEPT ![w] = rest]
                 /\ UNCHANGED <<chunksLeft, mapOk>>
  /\ UNCHANGED <<populated, failing, keyspace, nprocs, dpc, derr, poolSize,
                 tasks, taskq, mvars, rvars, uvars>>

\* Lines 98-105: starmap returns once every chunk has reported; it re-raises
\* the first exception if a chunk failed.
StarmapEnd ==
  /\ dpc = "mapping"
  /\ chunksLeft = 0
  /\ IF mapOk THEN dpc' = "returned" /\ UNCHANGED derr
              ELSE dpc' = "raised" /\ derr' = "TaskError"
  /\ UNCHANGED <<populated, failing, keyspace, nprocs, poolSize, tasks,
                 taskq, workers, status, chunksLeft, mapOk, mvars, rvars, uvars>>

\* No migrate() runs in the calling process (lines 120-126).
TaskIdle ==
  /\ src = [k \in Keys |-> NoKey]
  /\ dst = [k \in Keys |-> NoKey]
  /\ dst0 = dst
  /\ match = NoMatch
  /\ pc = "unused"
  /\ cursor = 0
  /\ keys = <<>>
  /\ key_types = <<>>
  /\ key_data = <<>>
  /\ pipeline = <<>>
  /\ err = NoErr
  /\ scanLog = <<>>
  /\ execLog = <<>>
  /\ deleted = [k \in Keys |-> NotDeleted]
  /\ nDel = 0

InitAll ==
  /\ TaskIdle
  /\ UriIdle
  /\ FirstRun
  /\ populated \in SUBSET DbCandidates
  /\ failing \in SUBSET populated
  /\ keyspace = [i \in 1..Cardinality(populated) |->
                   DbName(SortedSeq(populated)[i])]
  /\ nprocs \in 1..MaxProcs
  /\ dpc = "init"
  /\ derr = NoErr
  /\ poolSize = 0
  /\ tasks = <<>>
  /\ taskq = <<>>
  /\ workers = <<>>
  /\ status = <<>>
  /\ chunksLeft = 0
  /\ mapOk = TRUE

NextAll ==
  \/ MigrateAllStart
  \/ \E w \in 1..poolSize : WorkerGet(w)
  \/ \E w \in 1..poolSize : TaskEnd(w)
  \/ StarmapEnd

SpecAll == InitAll /\ [][NextAll]_vars

\* Every step of migrate_all() is a step of the caller or of a worker
\* process, and none of them waits for anything outside the model.
FairSpecAll == SpecAll /\ WF_vars(NextAll)

\* ============================================== properties of migrate_all()
Running == {i \in 1..Len(status) : status[i] = "running"}
Dispatched == dpc \in {"mapping", "returned", "raised"} /\ populated # {}

\* C5: for a non-empty set D of populated databases, exactly |D| tasks are
\* created, one per db index of D, each with that index as source and as
\* destination db and with the ordinals 0..|D|-1, and never more than
\* min(|D|, nprocs) of them run at the same time.
C5_Dispatch ==
  Dispatched =>
    /\ Len(tasks) = Cardinality(populated)
    /\ {tasks[i].srcdb : i \in 1..Len(tasks)} = populated
    /\ \A i \in 1..Len(tasks) :
         tasks[i].dstdb = tasks[i].srcdb /\ tasks[i].barpos = i - 1
    /\ Len(status) = Len(tasks)
    /\ Cardinality(Running) <= MinOf(Cardinality(populated), nprocs)

\* C5 witness: databases 0 and 3 are populated, nprocs is 2, and the two
\* tasks, for db 0 and db 3, run at the same time.
C5_Witness ==
  /\ populated = {0, 3}
  /\ nprocs = 2
  /\ dpc = "mapping"
  /\ Running = {1, 2}
  /\ tasks[1].srcdb = 0 /\ tasks[2].dstdb = 3

\* C6 (as claimed): when migrate_all() returns or raises, the task of every
\* populated database has been executed to its own completion or failure.
C6_FailureIsolation ==
  (dpc \in {"returned", "raised"} /\ populated # {}) =>
    \A d \in populated :
      \E i \in 1..Len(tasks) :
        tasks[i].srcdb = d /\ status[i] \in {"done", "failed"}

AllDone ==
  \A d \in populated :
    \E i \in 1..Len(tasks) : tasks[i].srcdb = d /\ status[i] = "done"

\* C10: with more populated databases than nprocs and no failing task,
\* migrate_all() eventually returns with the task of every database
\* completed, and it never returns before all of them have completed.
C10_QueuedTasksRun ==
  /\ (Cardinality(populated) > nprocs /\ failing = {})
       ~> (dpc = "returned" /\ AllDone)
  /\ [](dpc = "returned" => AllDone)

\* C10 witness: migrate_all() returned after running more tasks than it
\* has workers, every one of them completed.
C10_Witness ==
  /\ Cardinality(populated) > nprocs
  /\ failing = {}
  /\ dpc = "returned"
  /\ Len(tasks) > poolSize
  /\ AllDone

\* ================================================= parse_uri, combine_uri
MaxUriLen == 5       \* endpoint strings tried have at most MaxUriLen characters

UriAlphabet == {"h", "/", ":", "7"}
RECURSIVE StringsUpTo(_)
StringsUpTo(n) ==
  IF n = 0 THEN {<<>>}
  ELSE StringsUpTo(n - 1)
         \cup {Append(t, c) : t \in {u \in StringsUpTo(n - 1) : Len(u) = n - 1},
                              c \in UriAlphabet}
UriStrings == StringsUpTo(MaxUriLen)

ValidHosts == {<<"h">>, <<"h", "7">>, <<"r", ".", "i", "o">>}
ValidPorts == {1, 80, 6379, 65535}
ValidDbs == {0, 7, 15}
ValidTriples ==
  {[host |-> h, port |-> p, db |-> d] :
     h \in ValidHosts, p \in ValidPorts, d \in ValidDbs}

\* str.split(c): the pieces of t between the occurrences of c.
RECURSIVE SplitOn(_, _)
SplitOn(t, c) ==
  IF \A i \in 1..Len(t) : t[i] # c THEN <<t>>
  ELSE LET i == Min({j \in 1..Len(t) : t[j] = c})
       IN <<SubSeq(t, 1, i - 1)>> \o SplitOn(SubSeq(t, i + 1, Len(t)), c)

\* int(t) succeeds on a non-empty string of decimal digits; the strings
\* tried here hold no sign, blank or underscore.
IsIntText(t) ==
  /\ t # <<>>
  /\ \A i \in 1..Len(t) : \E d \in 1..10 : DigitChars[d] = t[i]

\* Lines 10-17.  port and db stay the integers 6379 and 0 unless the string
\* has exactly one "/" (resp. the host part exactly one ":").
ParseUri(u) ==
  LET bySlash == SplitOn(u, "/")
      hasDb == Len(bySlash) = 2
      host1 == IF hasDb THEN bySlash[1] ELSE u
      byColon == SplitOn(host1, ":")
      hasPort == Len(byColon) = 2
      host2 == IF hasPort THEN byColon[1] ELSE host1
      portOk == ~hasPort \/ IsIntText(byColon[2])
      dbOk == ~hasDb \/ IsIntText(bySlash[2])
  IN IF portOk /\ dbOk
       THEN [ok |-> TRUE, host |-> host2,
             port |-> IF hasPort THEN ParseInt(byColon[2]) ELSE 6379,
             db |-> IF hasDb THEN ParseInt(bySlash[2]) ELSE 0,
             exc |-> ""]
       ELSE [ok |-> FALSE, host |-> <<>>, port |-> 0, db |-> 0,
             exc |-> "ValueError"]

\* Variant of CombineUri: the port is left out of the string.
CombineUriNoPort(host, port, db) == host \o <<"/">> \o Decimal(db)

\* Lines 20-22: '{}:{}/{}'.format(host, port, db).
CombineUri(host, port, db) ==
  host \o <<":">> \o Decimal(port) \o <<"/">> \o Decimal(db)

\* combine_uri is applied to a (host, port, db).
CombineStep ==
  /\ upc = "combine"
  /\ uri' = CombineUri(triple.host, triple.port, triple.db)
  /\ upc' = "parse"
  /\ UNCHANGED <<triple, parsed, mvars, dvars, rvars>>

\* Lines 117-118: parse_uri is applied to an endpoint string.
ParseStep ==
  /\ upc = "parse"
  /\ parsed' = ParseUri(uri)
  /\ upc' = "parsed"
  /\ UNCHANGED <<uri, triple, mvars, dvars, rvars>>

\* Either an endpoint string is given, or a (host, port, db) to be combined
\* and parsed back.
InitUri ==
  /\ TaskIdle
  /\ DispatcherIdle
  /\ FirstRun
  /\ parsed = NotParsed
  /\ \/ upc = "parse" /\ uri \in UriStrings /\ triple = NoTriple
     \/ upc = "combine" /\ uri = <<>> /\ triple \in ValidTriples

NextUri ==
  \/ CombineStep
  \/ ParseStep

SpecUri == InitUri /\ [][NextUri]_vars

\* ------------------------------------------------ properties of parse_uri
CountChar(t, c) == Cardinality({i \in 1..Len(t) : t[i] = c})
\* The text after the first occurrence of c in t.
After(t, c) == SubSeq(t, Min({j \in 1..Len(t) : t[j] = c}) + 1, Len(t))
Before(t, c) == SubSeq(t, 1, Min({j \in 1..Len(t) : t[j] = c}) - 1)
AllDigits(t) ==
  t # <<>> /\ \A i \in 1..Len(t) :
    t[i] \in {"0", "1", "2", "3", "4", "5", "6", "7", "8", "9"}
\* Malformed as section 4.1 of the specification has it.
Malformed(u) ==
  \/ CountChar(u, "/") > 1
  \/ CountChar(u, ":") > 1
  \/ CountChar(u, "/") = 1 /\ ~AllDigits(After(u, "/"))
  \/ /\ CountChar(u, ":") = 1
     /\ LET hp == IF CountChar(u, "/") >= 1 THEN Before(u, "/") ELSE u
        IN CountChar(hp, ":") = 1 /\ ~AllDigits(After(hp, ":"))

\* C11 (as claimed): parse_uri fails on every endpoint string that has more
\* than one "/" or more than one ":", or whose port or db part is not an
\* integer.
C11_RejectsMalformed ==
  (upc = "parsed" /\ triple = NoTriple /\ Malformed(uri)) => ~parsed.ok

\* C12: parsing the string combine_uri makes of a valid (host, port, db)
\* gives back that host, port and db.
C12_RoundTrip ==
  (upc = "parsed" /\ triple # NoTriple) =>
    /\ parsed.ok
    /\ parsed.host = triple.host
    /\ parsed.port = triple.port
    /\ parsed.db = triple.db

\* C12 witness: a combined endpoint with a multi-digit port and db was
\* parsed back.
C12_Witness ==
  /\ upc = "parsed"
  /\ parsed.ok
  /\ triple.host = <<"r", ".", "i", "o">>
  /\ triple.port = 65535
  /\ triple.db = 15
  /\ Len(uri) = 13

\* ======================== migrate() onto a destination that holds keys
\* The source keys of these runs.
SrcRecordsDst ==
  {NoKey, StrKey("x", -1), StrKey("x", 0), StrKey("x", 7),
   HashKey({<<"f", "v">>}, -1), HashKey({<<"f", "v">>}, 7)}

\* The destination is empty, or one of the keys "a1", "a2" is already there:
\* a string, or a hash with another field, each with an expiry of its own.
PreKeys == {<<"a", "1">>, <<"a", "2">>}
PreRecords == {StrKey("old", 9), HashKey({<<"g", "w">>}, 9)}
DstInitsPre ==
  {[k \in Keys |-> NoKey]}
    \cup {[k \in Keys |-> IF k = p THEN r ELSE NoKey] :
            p \in PreKeys, r \in PreRecords}

InitDst ==
  /\ DispatcherIdle
  /\ UriIdle
  /\ FirstRun
  /\ src \in [Keys -> SrcRecordsDst]
  /\ dst \in DstInitsPre
  /\ dst0 = dst
  /\ match = NoMatch
  /\ pc = "scan"
  /\ cursor = 0
  /\ keys = <<>>
  /\ key_types = <<>>
  /\ key_data = <<>>
  /\ pipeline = <<>>
  /\ err = NoErr
  /\ scanLog = <<>>
  /\ execLog = <<>>
  /\ deleted = [k \in Keys |-> NotDeleted]
  /\ nDel = 0

\* migrate() is called again with the same arguments after it returned
\* (lines 35-46 once more); the destination is the one the first call left.
Rerun ==
  /\ pc \in {"done", "failed"}
  /\ run = 1
  /\ run' = 2
  /\ dstRun1' = dst
  /\ errRun1' = err
  /\ err' = NoErr
  /\ dst0' = dst
  /\ pc' = "scan"
  /\ cursor' = 0
  /\ keys' = <<>>
  /\ key_types' = <<>>
  /\ key_data' = <<>>
  /\ pipeline' = <<>>
  /\ scanLog' = <<>>
  /\ execLog' = <<>>
  /\ UNCHANGED <<src, dst, match, deleted, nDel, dvars, uvars>>

NextDst ==
  \/ Scan
  \/ ReadTypes
  \/ ReadData
  \/ BuildWrites
  \/ ExecWrites
  \/ OtherClientDelete
  \/ Rerun

SpecDst == InitDst /\ [][NextDst]_vars

\* ------------------------- properties of a run onto a populated destination
\* The destination as it was before executed group n.
DstBefore(n) == IF n = 1 THEN dst0 ELSE execLog[n - 1].after
\* The commands of group e for key k were all accepted, and there are some.
WrittenOk(e, k) ==
  /\ CmdPos(e.cmds, k) # {}
  /\ CmdPos(e.cmds, k) \cap e.failed = {}

\* C13: a second call of migrate() on an unchanged source, against the
\* destination the first call left, raises no error the first call did not
\* raise (none at all after a first call that returned) and ends with the
\* same keys, the same values and the same presence of an expiry on every
\* key.
C13_Idempotence ==
  (run = 2 /\ nDel = 0) =>
    /\ err \in {NoErr, errRun1}
    /\ pc = "failed" => err = errRun1
    /\ pc = "done" => errRun1 = NoErr
    /\ pc \in {"done", "failed"} =>
         \A k \in Keys :
           /\ dst[k].type = dstRun1[k].type
           /\ dst[k].val = dstRun1[k].val
           /\ (dst[k].ttl = -1) <=> (dstRun1[k].ttl = -1)

\* C13 witness: the second call ended after writing again a string and a
\* hash with an expiry, the hash onto the one the first call had created.
C13_Witness ==
  /\ run = 2
  /\ nDel = 0
  /\ pc = "done"
  /\ \E n \in 1..Len(execLog) : \E j \in 1..Len(execLog[n].cmds) :
       /\ execLog[n].cmds[j].op = "pexpire"
       /\ dst0[execLog[n].cmds[j].key].type = "hash"
  /\ \E n \in 1..Len(execLog) : \E j \in 1..Len(execLog[n].cmds) :
       execLog[n].cmds[j].op = "set"

\* C15: each batch is written by one grouped call; when the destination
\* rejects a command of that group, every other key of the batch whose
\* commands were accepted is on the destination with what was read for it,
\* the task has ended with the error, and that batch was the last one
\* scanned.
C15_PartialFailure ==
  /\ Len(execLog) <= Len(scanLog)
  /\ \A n \in 1..Len(execLog) :
       LET e == execLog[n] IN
       e.failed # {} =>
         /\ n = Len(execLog)
         /\ pc = "failed"
         /\ err = "ResponseError"
         /\ Len(scanLog) = n
         /\ dst = e.after
         /\ \A i \in 1..Len(e.keys) :
              WrittenOk(e, e.keys[i]) =>
                /\ e.after[e.keys[i]].type = e.types[i]
                /\ e.types[i] = "string" =>
                     e.after[e.keys[i]].val = DataRead(e, i)
                /\ e.types[i] = "hash" =>
                     DataRead(e, i).m \subseteq e.after[e.keys[i]].val.m

\* C15 witness: the first command of a group was rejected and a later key
\* of the same batch, not on the destination before, was written.
C15_Witness ==
  /\ pc = "failed"
  /\ err = "ResponseError"
  /\ execLog # <<>>
  /\ 1 \in Last(execLog).failed
  /\ \E i \in 2..Len(Last(execLog).keys) :
       /\ WrittenOk(Last(execLog), Last(execLog).keys[i])
       /\ dst0[Last(execLog).keys[i]].type = "none"
       /\ dst[Last(execLog).keys[i]].type # "none"

\* C18 (as claimed): when the destination held key k with the same type
\* before the run and migrate() has written k, the destination's k has
\* exactly the value or the field map read from the source, no expiry when
\* the source key was read with none (PTTL -1) and an expiry when it was
\* read with a positive PTTL.
C18_Overwrite ==
  run = 1 =>
    \A n \in 1..Len(execLog) :
      LET e == execLog[n] IN
      \A i \in 1..Len(e.keys) :
        (dst0[e.keys[i]].type = e.types[i] /\ WrittenOk(e, e.keys[i])) =>
          /\ e.after[e.keys[i]].val = DataRead(e, i)
          /\ PttlRead(e, i) = -1 => e.after[e.keys[i]].ttl = -1
          /\ PttlRead(e, i) > 0 => e.after[e.keys[i]].ttl > 0

\* ------------------------------------- properties of the grouped exchanges
\* What the source holds for key k as the reply to the read of a key whose
\* type was read as t.
OwnPayload(db, k, t) ==
  IF t = "string"
    THEN (IF db[k].type = "string" THEN db[k].val ELSE Nil)
    ELSE (IF db[k].type = "hash" THEN db[k].val ELSE MapVal({}))

\* The type read gives every key of the batch its own type.
TypesAligned ==
  (pc = "type" /\ pc' = "data") =>
    /\ Len(key_types') = Len(keys)
    /\ \A i \in 1..Len(keys) : key_types'[i] = src[keys[i]].type

\* The TTL/value read gives every key of the batch its own TTL and payload.
DataAligned ==
  (pc = "data" /\ pc' = "build") =>
    /\ Len(key_data') = 2 * Len(keys)
    /\ \A i \in 1..Len(keys) :
         /\ key_data'[2 * i - 1] = src[keys[i]].ttl
         /\ key_data'[2 * i] = OwnPayload(src, keys[i], key_types[i])

\* The write group is built for every key from the results at its position.
WritesAligned ==
  (pc = "build" /\ pc' = "exec") =>
    /\ \A j \in 1..Len(pipeline') : InSeq(keys, pipeline'[j].key)
    /\ \A i \in 1..Len(keys) :
         LET pos == CmdPos(pipeline', keys[i]) IN
         /\ (pos # {}) <=> Truthy(key_data[2 * i])
         /\ \A j \in pos :
              /\ pipeline'[j].op \in {"set", "hmset"} =>
                   pipeline'[j].val = key_data[2 * i]
              /\ pipeline'[j].op = "set" => key_types[i] = "string"
              /\ pipeline'[j].op \in {"hmset", "pexpire"} =>
                   key_types[i] = "hash"
              /\ pipeline'[j].px \subseteq {key_data[2 * i - 1]}

\* C14: in every batch, the empty one included, the type, the TTL and the
\* payload used to write the key at position i are the replies to the type,
\* pttl and get/hgetall commands queued for that key; no reply is attributed
\* to another key, also when payloads of the batch are absent.
C14_PositionalAlignment ==
  [][TypesAligned /\ DataAligned /\ WritesAligned]_vars

\* C14 witness: a write group was built for a batch of two keys with
\* different payloads, the first of them absent.
C14_Witness ==
  /\ pc = "exec"
  /\ Len(keys) = 2
  /\ key_data[2] = Nil
  /\ Truthy(key_data[4])
  /\ CmdPos(pipeline, keys[2]) # {}
  /\ CmdPos(pipeline, keys[1]) = {}

\* C16 (as claimed): a source key that another client deletes after scan
\* returned it and before the type read of its batch is not what the task
\* fails on: the task does not end with ValueError at that key.
C16_DeletionTolerated ==
  \A i \in 1..Len(key_types) :
    (/\ i <= Len(keys)
     /\ deleted[keys[i]].at = "type"
     /\ deleted[keys[i]].batch = Len(scanLog)
     /\ \A j \in 1..(i - 1) : StringOrHash(key_types[j])) =>
      ~(pc = "failed" /\ err = "ValueError")

\* C17 (as claimed): every written key read with PTTL >= 0, a PTTL of
\* exactly 0 included, has an expiry on the destination after its group, and
\* every key read with PTTL = -1 is written with no expiry instruction.
C17_ExpiryPreserved ==
  \A n \in 1..Len(execLog) :
    LET e == execLog[n] IN
    \A i \in 1..Len(e.keys) :
      WrittenOk(e, e.keys[i]) =>
        /\ PttlRead(e, i) >= 0 => e.after[e.keys[i]].ttl >= 0
        /\ PttlRead(e, i) = -1 =>
             \A j \in CmdPos(e.cmds, e.keys[i]) :
               e.cmds[j].px = {} /\ e.cmds[j].op # "pexpire"

\* C17 (amended): a written key read with PTTL > 0 has exactly that expiry
\* on the destination after its group.  A written key read with PTTL <= 0,
\* that is -1 or exactly 0, gets no expiry instruction: a string ends with
\* no expiry, a hash with no expiry unless the destination already held a
\* hash under that key, whose expiry state it then keeps.  So a volatile
\* key read with PTTL 0 is persistent on a destination that did not hold it.
C17_ExpiryState ==
  \A n \in 1..Len(execLog) :
    LET e == execLog[n] IN
    \A i \in 1..Len(e.keys) :
      LET k == e.keys[i]
          before == DstBefore(n)[k]
      IN WrittenOk(e, k) =>
           /\ PttlRead(e, i) > 0 => e.after[k].ttl = PttlRead(e, i)
           /\ (PttlRead(e, i) <= 0 /\ e.types[i] = "string") =>
                e.after[k].ttl = -1
           /\ (PttlRead(e, i) <= 0 /\ e.types[i] = "hash") =>
                e.after[k].ttl =
                  (IF before.type = "hash" THEN before.ttl ELSE -1)

\* C17 witness: a string read with PTTL 0 was written and has no expiry on
\* the destination, and a hash read with a positive PTTL was written.
C17_Witness ==
  /\ \E n \in 1..Len(execLog) : \E i \in 1..Len(execLog[n].keys) :
       /\ PttlRead(execLog[n], i) = 0
       /\ WrittenOk(execLog[n], execLog[n].keys[i])
       /\ execLog[n].after[execLog[n].keys[i]].ttl = -1
  /\ \E n \in 1..Len(execLog) : \E i \in 1..Len(execLog[n].keys) :
       /\ PttlRead(execLog[n], i) > 0
       /\ execLog[n].types[i] = "hash"
       /\ WrittenOk(execLog[n], execLog[n].keys[i])

\* C19 (as claimed): when the destination rejects the field-map write of a
\* source hash read with a positive PTTL, the destination's key is after
\* the group what it was before it, value and expiry.
C19_RejectedWriteUntouched ==
  \A n \in 1..Len(execLog) :
    LET e == execLog[n] IN
    \A i \in 1..Len(e.keys) :
      (/\ e.types[i] = "hash"
       /\ PttlRead(e, i) > 0
       /\ \E j \in CmdPos(e.cmds, e.keys[i]) \cap e.failed :
            e.cmds[j].op = "hmset") =>
        e.after[e.keys[i]] = DstBefore(n)[e.keys[i]]

\* C20 (as claimed): when the keyspace info names no populated database,
\* migrate_all() launches no task and returns without raising an error.
C20_EmptySourceReturns ==
  (populated = {} /\ dpc # "init") =>
    /\ dpc \in {"mapping", "returned"}
    /\ derr = NoErr
    /\ tasks = <<>>

====
